---- MODULE Spec2Model ----
(***************************************************************************)
(* Model of CookieLogger (src/cookie-editor/popup.js): the fingerprint     *)
(* cache (sentCookies), its hydration from and persistence to              *)
(* chrome.storage.local, and logCookieData, the submit operation.          *)
(*                                                                         *)
(* Strings are sequences of UTF-16 code units.  A JavaScript Set is a      *)
(* duplicate-free sequence in insertion order, which is what Array.from    *)
(* writes to the store.  Every `await` is a point where other handlers     *)
(* may run, so each async method is split at its awaits.                   *)
(* chrome.storage.local serves the requests of one extension in the order  *)
(* they were issued; storageQ is that request queue.                       *)
(***************************************************************************)
EXTENDS Integers, Sequences, FiniteSets, TLC

VARIABLES
    webhookUrl,     \* this.webhookUrl
    sentCookies,    \* this.sentCookies, in insertion order
    store,          \* chrome.storage.local, key 'sentCookies'
    storageQ,       \* storage requests issued and not yet served
    instance,       \* number of the current CookieLogger instance
    loadPc,         \* position of loadSentCookies of the current instance
    loadResult,     \* what its storage.get resolved to
    clearPc,        \* position of the clearSentCookies call
    calls,          \* the logCookieData calls awaiting their fetch
    last,           \* history: the outcome of the call that returned last
    nCalls,         \* logCookieData calls made so far
    nClears,        \* clearSentCookies calls made so far
    okCount,        \* history: success responses received, per fingerprint
    orderly,        \* history: the run has stayed within the orderly regime
    sinceSent,      \* history: fingerprints delivered on this instance, no clear since
    clearedQuiet,   \* history: a clear() has returned and nothing was committed since
    prevCommitted,  \* history: fingerprints committed on the previous instance
    roundTrip,      \* history: the previous instance ended with all writes stored
    undisturbed,    \* history: no clear and no storage failure on this instance
    persistLost,    \* history: fingerprints whose commit's write failed
    bootStore,      \* history: the fingerprints in the store when the run began
    probe           \* a direct call of hashString or generateCookieFingerprint

vars == <<webhookUrl, sentCookies, store, storageQ, instance, loadPc, loadResult,
          clearPc, calls, last, nCalls, nClears, okCount, orderly, sinceSent,
          clearedQuiet, prevCommitted, roundTrip, undisturbed, persistLost,
          bootStore, probe>>

(* ---------------------------- bounds ---------------------------------- *)
\* Operations a run starts from outside: logCookieData calls,
\* clearSentCookies calls and restarts together.
MaxOps == 3

\* Length, in characters, of the strings hashString is called on directly.
MaxText == 5

Slots == {1, 2}

(* ---------------------------- strings --------------------------------- *)
undefined == <<-1>>
unknown == <<117, 110, 107, 110, 111, 119, 110>>
underscore == <<95>>

Range(s) == {s[i] : i \in 1..Len(s)}

\* The nullish ?? in place of ||: an empty string is kept.
OrElse_NullishOnly(v, d) == IF v = undefined THEN d ELSE v

\* v || d for a string or undefined v (lines 36-38): the empty string is falsy.
OrElse(v, d) == IF v = undefined \/ v = <<>> THEN d ELSE v

Abs(x) == IF x < 0 THEN -x ELSE x

MinInt32 == -2147483647 - 1

\* (hash << 5) + hash in place of (hash << 5) - hash.
HashStep_Times33(hash, char) ==
    LET lo == hash % 65536
        hi == ((hash - lo) \div 65536) % 65536
        lo33 == lo * 33 + char
        hi33 == (hi * 33 + (lo33 \div 65536)) % 65536
        hiSigned == IF hi33 >= 32768 THEN hi33 - 65536 ELSE hi33
    IN  hiSigned * 65536 + (lo33 % 65536)

\* Lines 48-49: ((hash << 5) - hash) + char, then hash & hash, which wraps the
\* sum to a signed 32-bit integer.  The model checker's integers are 32 bits
\* wide themselves, so 31 * hash + char is worked out on the two 16-bit halves
\* of hash, modulo 2^32, and put back together as a signed value.
HashStep(hash, char) ==
    LET lo == hash % 65536
        hi == ((hash - lo) \div 65536) % 65536
        lo31 == lo * 31 + char
        hi31 == (hi * 31 + (lo31 \div 65536)) % 65536
        hiSigned == IF hi31 >= 32768 THEN hi31 - 65536 ELSE hi31
    IN  hiSigned * 65536 + (lo31 % 65536)

HexDigit(d) == IF d < 10 THEN 48 + d ELSE 87 + d

\* Number.prototype.toString(16) of a non-negative integer.
RECURSIVE ToString16(_)
ToString16(n) ==
    IF n < 16 THEN <<HexDigit(n)>>
    ELSE ToString16(n \div 16) \o <<HexDigit(n % 16)>>

\* Line 51: Math.abs(hash).toString(16); Math.abs(-2^31) is 2^31, "80000000".
AbsToString16(hash) ==
    IF hash = MinInt32 THEN <<56, 48, 48, 48, 48, 48, 48, 48>>
    ELSE ToString16(Abs(hash))

RECURSIVE HashLoop(_, _, _)
HashLoop(str, i, hash) ==
    IF i > Len(str) THEN hash
    ELSE HashLoop(str, i + 1, HashStep(hash, str[i]))

hashString(str) == AbsToString16(HashLoop(str, 1, 0))

generateCookieFingerprint(cookieData) ==
    LET cookieHash == hashString(OrElse(cookieData.cookie, <<>>))
        username == OrElse(cookieData.username, unknown)
        userId == OrElse(cookieData.userId, unknown)
    IN  username \o underscore \o userId \o underscore \o cookieHash

\* A character's UTF-16 code units, which are what str.length counts and
\* str.charCodeAt(i) returns (lines 46-47): one unit for a code point of the
\* basic plane, a surrogate pair above it.
Utf16Char(cp) ==
    IF cp < 65536 THEN <<cp>>
    ELSE <<55296 + ((cp - 65536) \div 1024), 56320 + ((cp - 65536) % 1024)>>

\* A string given by its characters' code points, as the JavaScript string.
RECURSIVE Utf16(_)
Utf16(text) ==
    IF text = <<>> THEN <<>> ELSE Utf16Char(text[1]) \o Utf16(SubSeq(text, 2, Len(text)))

(* ---------------------------- records --------------------------------- *)
RecAlice == [username |-> <<97, 108>>, userId |-> <<49>>, cookie |-> <<116, 111, 107>>]
RecBob == [username |-> <<98>>, userId |-> <<50>>, cookie |-> <<120>>]
RecEmpty == [username |-> undefined, userId |-> <<>>, cookie |-> undefined]

Records == {RecAlice, RecBob, RecEmpty}

Fingerprints == {generateCookieFingerprint(r) : r \in Records}

(* ---------------------------- the Set --------------------------------- *)
SetHas(s, x) == x \in Range(s)

\* An array push in place of Set.add.
SetAdd_Push(s, x) == Append(s, x)

SetAdd(s, x) == IF SetHas(s, x) THEN s ELSE Append(s, x)

RECURSIVE NewSetFrom(_, _)
NewSetFrom(arr, acc) ==
    IF arr = <<>> THEN acc
    ELSE NewSetFrom(Tail(arr), SetAdd(acc, Head(arr)))

NewSet(arr) == NewSetFrom(arr, <<>>)

\* The membership test of line 57 answering false for every record.
isDuplicateCookie_Never(cookieData) == FALSE

isDuplicateCookie(cookieData) ==
    SetHas(sentCookies, generateCookieFingerprint(cookieData))

getSentCookiesCount == Len(sentCookies)

(* ---------------------------- the store ------------------------------- *)
Absent == [kind |-> "absent", val |-> <<>>]
Malformed == [kind |-> "malformed", val |-> <<>>]
Stored(arr) == [kind |-> "array", val |-> arr]
GetFailed == [kind |-> "failed", val |-> <<>>]

\* What an earlier session can have left in the store: nothing, a value that
\* is no array, or the array a save wrote.
InitStores ==
    {Absent, Malformed} \cup {Stored(<<f>>) : f \in Fingerprints}

GetReq == [op |-> "get", val |-> <<>>, inst |-> instance, by |-> <<>>]
NextGetReq == [op |-> "get", val |-> <<>>, inst |-> instance + 1, by |-> <<>>]
SetReq(arr, fp) == [op |-> "set", val |-> arr, inst |-> instance, by |-> fp]
RemoveReq == [op |-> "remove", val |-> <<>>, inst |-> instance, by |-> <<>>]

WritesInFlight == \E i \in 1..Len(storageQ) : storageQ[i].op = "set"

(* ---------------------------- calls ----------------------------------- *)
IdleCall == [pc |-> "idle", rec |-> RecEmpty, sentBefore |-> FALSE]

\* No direct call is under way.
NoRecord == [username |-> undefined, userId |-> undefined, cookie |-> undefined,
             robux |-> undefined]

NoProbe == [kind |-> "none", done |-> FALSE, text |-> <<>>, digest |-> <<>>,
            a |-> NoRecord, b |-> NoRecord, fpa |-> <<>>, fpb |-> <<>>]

NoReturn == [out |-> "none", resp |-> "none", queried |-> FALSE, seen |-> FALSE,
             sentBefore |-> FALSE]

Sending == {s \in Slots : calls[s].pc = "sending"}

HydrationOpen == loadPc # "done"

OpsLeft == nCalls + nClears + instance < MaxOps

Init ==
    /\ webhookUrl \in {"", "hook"}
    /\ sentCookies = <<>>
    /\ store \in InitStores
    /\ instance = 0
    /\ storageQ = <<GetReq>>
    /\ loadPc = "reading"
    /\ loadResult = Absent
    /\ clearPc = "idle"
    /\ calls = [s \in Slots |-> IdleCall]
    /\ last = NoReturn
    /\ nCalls = 0
    /\ nClears = 0
    /\ okCount = [f \in Fingerprints |-> 0]
    /\ orderly = TRUE
    /\ sinceSent = {}
    /\ clearedQuiet = "no"
    /\ prevCommitted = {}
    /\ roundTrip = FALSE
    /\ undisturbed = TRUE
    /\ persistLost = {}
    /\ bootStore = Range(store.val)
    /\ probe = NoProbe

(* ---------------------------- logCookieData --------------------------- *)
\* The duplicate check moved in front of the URL check.
StartOutcome_DuplicateFirst(url, duplicate) ==
    IF duplicate
    THEN [out |-> "duplicate", queried |-> TRUE]
    ELSE IF url = ""
    THEN [out |-> "not_configured", queried |-> TRUE]
    ELSE [out |-> "sending", queried |-> TRUE]

\* Lines 86-106: the call up to its first await (the fetch), given the URL
\* and whether the record is a duplicate.  The result is the outcome returned
\* at once, or "sending" when the fetch was issued; queried tells whether
\* isDuplicateCookie was evaluated (it is not when the URL is missing).
StartOutcome(url, duplicate) ==
    IF url = ""
    THEN [out |-> "not_configured", queried |-> FALSE]
    ELSE IF duplicate
    THEN [out |-> "duplicate", queried |-> TRUE]
    ELSE [out |-> "sending", queried |-> TRUE]

LogCookieDataStart(cookieData) ==
    StartOutcome(webhookUrl, isDuplicateCookie(cookieData))

LogCookieData(s, cookieData) ==
    LET fp == generateCookieFingerprint(cookieData)
        start == LogCookieDataStart(cookieData)
    IN  /\ OpsLeft
        /\ calls[s].pc = "idle"
        /\ \A t \in Slots : t < s => calls[t].pc = "sending"
        /\ nCalls' = nCalls + 1
        /\ orderly' = (orderly /\ Sending = {} /\ ~HydrationOpen)
        /\ IF start.out = "sending"
           THEN /\ calls' = [calls EXCEPT ![s] = [pc |-> "sending", rec |-> cookieData,
                                                  sentBefore |-> fp \in sinceSent]]
                /\ UNCHANGED last
           ELSE /\ last' = [out |-> start.out, resp |-> "none",
                            queried |-> start.queried,
                            seen |-> SetHas(sentCookies, fp),
                            sentBefore |-> fp \in sinceSent]
                /\ UNCHANGED calls
        /\ UNCHANGED <<bootStore, probe, webhookUrl, sentCookies, store, storageQ, instance, loadPc,
                       loadResult, clearPc, nClears, okCount, sinceSent, clearedQuiet,
                       prevCommitted, roundTrip, undisturbed, persistLost>>

\* The save without the add of line 69.
markCookieAsSent_SaveOnly(cookieData) ==
    /\ sentCookies' = sentCookies
    /\ storageQ' = Append(storageQ, SetReq(sentCookies, generateCookieFingerprint(cookieData)))

\* Lines 67-72: markCookieAsSent, with the synchronous part of saveSentCookies
\* (Array.from and the storage.set request, lines 23-27).
markCookieAsSent(cookieData) ==
    LET fingerprint == generateCookieFingerprint(cookieData)
        added == SetAdd(sentCookies, fingerprint)
    IN  /\ sentCookies' = added
        /\ storageQ' = Append(storageQ, SetReq(added, fingerprint))

\* markCookieAsSent moved out of the response.ok branch.
AfterFetch_MarkAlways(resp) ==
    IF resp = "ok" THEN [out |-> "delivered", mark |-> TRUE]
    ELSE IF resp = "error" THEN [out |-> "webhook_error", mark |-> TRUE]
    ELSE [out |-> "network_error", mark |-> TRUE]

\* The catch of lines 117-120 left out: a rejected fetch rejects the call.
AfterFetch_Uncaught(resp) ==
    IF resp = "ok" THEN [out |-> "delivered", mark |-> TRUE]
    ELSE IF resp = "error" THEN [out |-> "webhook_error", mark |-> FALSE]
    ELSE [out |-> "raised", mark |-> FALSE]

\* Lines 108-120: what the call does with the settled fetch: the outcome it
\* returns and whether it marks the cookie as sent.
AfterFetch(resp) ==
    IF resp = "ok" THEN [out |-> "delivered", mark |-> TRUE]
    ELSE IF resp = "error" THEN [out |-> "webhook_error", mark |-> FALSE]
    ELSE [out |-> "network_error", mark |-> FALSE]

Settle(s, resp) ==
    LET after == AfterFetch(resp)
        fp == generateCookieFingerprint(calls[s].rec)
    IN  /\ calls[s].pc = "sending"
        /\ IF after.mark
           THEN /\ markCookieAsSent(calls[s].rec)
                /\ sinceSent' = sinceSent \cup {fp}
                /\ clearedQuiet' = "no"
           ELSE UNCHANGED <<sentCookies, storageQ, sinceSent, clearedQuiet>>
        /\ calls' = [calls EXCEPT ![s] = IdleCall]
        /\ last' = [out |-> after.out, resp |-> resp, queried |-> TRUE,
                    seen |-> FALSE, sentBefore |-> calls[s].sentBefore]
        /\ okCount' = IF resp = "ok" THEN [okCount EXCEPT ![fp] = @ + 1] ELSE okCount
        /\ UNCHANGED <<bootStore, probe, webhookUrl, store, instance, loadPc, loadResult, clearPc,
                       nCalls, nClears, orderly, prevCommitted, roundTrip,
                       undisturbed, persistLost>>

\* The fetch resolved with response.ok (lines 108-112).
ResponseOk(s) == Settle(s, "ok")

\* The fetch resolved with a non-ok status (lines 113-116).
ResponseError(s) == Settle(s, "error")

\* The fetch rejected (lines 117-120).
ResponseFault(s) == Settle(s, "fault")

(* ---------------------------- storage --------------------------------- *)
\* The value storage.get resolves to, or the rejection (line 12).
GetOutcome(ok) == IF ok THEN store ELSE GetFailed

\* The store after a served storage.set (lines 25-27) or storage.remove (line 77).
StoreAfter(req, ok) ==
    IF ~ok \/ req.op = "get" THEN store
    ELSE IF req.op = "set" THEN Stored(req.val)
    ELSE Absent

\* chrome.storage.local serves the oldest request; it succeeds or fails.  The
\* reply reaches the awaiting method only if its instance is still alive.
StorageServe(ok) ==
    LET req == Head(storageQ)
        live == req.inst = instance
    IN  /\ storageQ # <<>>
        /\ storageQ' = Tail(storageQ)
        /\ store' = StoreAfter(req, ok)
        /\ IF live /\ req.op = "get"
           THEN loadPc' = "resolved" /\ loadResult' = GetOutcome(ok)
           ELSE UNCHANGED <<loadPc, loadResult>>
        /\ IF live /\ req.op = "remove"
           THEN clearPc' = (IF ok THEN "removed" ELSE "failed")
           ELSE UNCHANGED clearPc
        /\ persistLost' = IF live /\ req.op = "set" /\ ~ok
                          THEN persistLost \cup {req.by} ELSE persistLost
        /\ undisturbed' = (undisturbed /\ ok)
        /\ orderly' = (orderly /\ ok)
        /\ UNCHANGED <<bootStore, probe, webhookUrl, sentCookies, instance, calls, last, nCalls, nClears,
                       okCount, sinceSent, clearedQuiet, prevCommitted, roundTrip>>

(* ---------------------------- loadSentCookies ------------------------- *)
\* The catch of lines 17-19 resetting this.sentCookies to an empty Set.
Hydrated_ClearOnFailure(result) ==
    IF result.kind = "array" THEN NewSet(result.val) ELSE <<>>

\* The stored array read and not put into this.sentCookies.
Hydrated_Dropped(result) == sentCookies

\* Lines 13-19: what the continuation of the get leaves in this.sentCookies.
\* A rejected get and a value new Set() cannot iterate both end in the catch.
Hydrated(result) ==
    IF result.kind = "array" THEN NewSet(result.val) ELSE sentCookies

LoadSentCookiesResume ==
    /\ loadPc = "resolved"
    /\ sentCookies' = Hydrated(loadResult)
    /\ loadPc' = "done"
    /\ UNCHANGED <<bootStore, probe, webhookUrl, store, storageQ, instance, loadResult, clearPc,
                   calls, last, nCalls, nClears, okCount, orderly, sinceSent,
                   clearedQuiet, prevCommitted, roundTrip, undisturbed, persistLost>>

(* ---------------------------- clearSentCookies ------------------------ *)
\* Lines 75-77: the call up to its await.
ClearSentCookies ==
    /\ OpsLeft
    /\ clearPc \in {"idle", "returned", "rejected"}
    /\ sentCookies' = <<>>
    /\ storageQ' = Append(storageQ, RemoveReq)
    /\ clearPc' = "removing"
    /\ nClears' = nClears + 1
    /\ sinceSent' = {}
    /\ persistLost' = {}
    /\ clearedQuiet' = "pending"
    /\ undisturbed' = FALSE
    /\ orderly' = FALSE
    /\ UNCHANGED <<bootStore, probe, webhookUrl, store, instance, loadPc, loadResult, calls, last,
                   nCalls, okCount, prevCommitted, roundTrip>>

\* How the call ends once the remove was served: line 78 and a normal return,
\* or the rejection of the awaited remove, which nothing catches.
ClearOutcome == IF clearPc = "removed" THEN "returned" ELSE "rejected"

\* The reply to the remove is delivered after the reply to the earlier get.
ClearSentCookiesResume ==
    /\ clearPc \in {"removed", "failed"}
    /\ loadPc = "done"
    /\ clearPc' = ClearOutcome
    /\ clearedQuiet' = IF clearedQuiet = "pending" /\ ClearOutcome = "returned"
                       THEN "yes" ELSE "no"
    /\ UNCHANGED <<bootStore, probe, webhookUrl, sentCookies, store, storageQ, instance, loadPc,
                   loadResult, calls, last, nCalls, nClears, okCount, orderly,
                   sinceSent, prevCommitted, roundTrip, undisturbed, persistLost>>

(* ---------------------------- restart --------------------------------- *)
\* Lines 3-7 and 222: the page is reloaded and a fresh CookieLogger is
\* constructed against the same store.  Calls of the old instance die with it;
\* requests already handed to the storage are still served.
Restart(url) ==
    /\ OpsLeft
    /\ webhookUrl' = url
    /\ sentCookies' = <<>>
    /\ instance' = instance + 1
    /\ storageQ' = Append(storageQ, NextGetReq)
    /\ loadPc' = "reading"
    /\ loadResult' = Absent
    /\ clearPc' = "idle"
    /\ calls' = [s \in Slots |-> IdleCall]
    /\ last' = NoReturn
    /\ prevCommitted' = sinceSent
    /\ roundTrip' = (undisturbed /\ storageQ = <<>>)
    /\ orderly' = (orderly /\ ~WritesInFlight)
    /\ sinceSent' = {}
    /\ persistLost' = {}
    /\ clearedQuiet' = "no"
    /\ undisturbed' = TRUE
    /\ UNCHANGED <<bootStore, probe, store, nCalls, nClears, okCount>>

Next ==
    \/ \E s \in Slots, r \in Records : LogCookieData(s, r)
    \/ \E s \in Slots : ResponseOk(s)
    \/ \E s \in Slots : ResponseError(s)
    \/ \E s \in Slots : ResponseFault(s)
    \/ \E ok \in BOOLEAN : StorageServe(ok)
    \/ LoadSentCookiesResume
    \/ ClearSentCookies
    \/ ClearSentCookiesResume
    \/ \E url \in {"", "hook"} : Restart(url)

Spec == Init /\ [][Next]_vars

(* ---------------------------- direct calls ---------------------------- *)
\* hashString and generateCookieFingerprint called directly on an instance
\* that was just constructed.  A probe is one such call: its arguments and,
\* once done, what it returned.
CodePoints == {122, 65535, 128512}

Polygenelubricants ==
    <<112, 111, 108, 121, 103, 101, 110, 101, 108, 117, 98, 114, 105, 99, 97, 110, 116, 115>>

\* The strings hashed: every string of up to MaxText characters that are
\* "z", U+FFFF or U+1F600, and one whose accumulator ends at -2^31.
Texts == UNION {[1..n -> CodePoints] : n \in 0..MaxText} \cup {Polygenelubricants}

HashProbes == {[NoProbe EXCEPT !.kind = "hash", !.text = t] : t \in Texts}

\* The records fingerprinted: username, userId and cookie absent, empty,
\* "unknown", or with and without an underscore; robux is a field that the
\* fingerprint does not read.
ProbeRecords ==
    [username : {undefined, <<>>, unknown, <<97>>, <<97, 95, 98>>},
     userId : {undefined, <<>>, unknown, <<99>>, <<98, 95, 99>>},
     cookie : {undefined, <<120>>},
     robux : {undefined, <<49>>}]

PairProbes == {[NoProbe EXCEPT !.kind = "pair", !.a = x, !.b = y] : x, y \in ProbeRecords}

PureInit ==
    /\ webhookUrl = "hook"
    /\ sentCookies = <<>>
    /\ store = Absent
    /\ instance = 0
    /\ storageQ = <<GetReq>>
    /\ loadPc = "reading"
    /\ loadResult = Absent
    /\ clearPc = "idle"
    /\ calls = [s \in Slots |-> IdleCall]
    /\ last = NoReturn
    /\ nCalls = 0
    /\ nClears = 0
    /\ okCount = [f \in Fingerprints |-> 0]
    /\ orderly = TRUE
    /\ sinceSent = {}
    /\ clearedQuiet = "no"
    /\ prevCommitted = {}
    /\ roundTrip = FALSE
    /\ undisturbed = TRUE
    /\ persistLost = {}
    /\ bootStore = {}
    /\ probe \in HashProbes \cup PairProbes

\* Lines 44-52 run on probe.text.
CallHashString ==
    /\ probe.kind = "hash"
    /\ ~probe.done
    /\ probe' = [probe EXCEPT !.done = TRUE, !.digest = hashString(Utf16(probe.text))]
    /\ UNCHANGED <<webhookUrl, sentCookies, store, storageQ, instance, loadPc, loadResult,
                   clearPc, calls, last, nCalls, nClears, okCount, orderly, sinceSent,
                   clearedQuiet, prevCommitted, roundTrip, undisturbed, persistLost,
                   bootStore>>

\* Lines 34-41 run on probe.a and then on probe.b; the method assigns to
\* locals only.
CallGenerateCookieFingerprint ==
    /\ probe.kind = "pair"
    /\ ~probe.done
    /\ probe' = [probe EXCEPT !.done = TRUE,
                              !.fpa = generateCookieFingerprint(probe.a),
                              !.fpb = generateCookieFingerprint(probe.b)]
    /\ UNCHANGED <<webhookUrl, sentCookies, store, storageQ, instance, loadPc, loadResult,
                   clearPc, calls, last, nCalls, nClears, okCount, orderly, sinceSent,
                   clearedQuiet, prevCommitted, roundTrip, undisturbed, persistLost,
                   bootStore>>

PureNext ==
    \/ CallHashString
    \/ CallGenerateCookieFingerprint

PureSpec == PureInit /\ [][PureNext]_vars

(* ====================================================================== *)
(* Claims                                                                 *)
(* ====================================================================== *)
Count(s, x) == Cardinality({i \in 1..Len(s) : s[i] = x})

Returned(s) == calls[s].pc = "sending" /\ calls'[s].pc = "idle" /\ last'.out # "none"

C2_LaterSubmitsAreDuplicates ==
    \A s \in Slots : calls[s].pc = "sending" => ~calls[s].sentBefore

\* C3: a logCookieData call that ends with webhook_error or network_error
\* adds nothing to sentCookies and issues no storage request, so the record
\* is as much a duplicate after the return as before it, and when it is not,
\* the next call for it goes to the webhook again.
C3_FailureDoesNotCommit ==
    [][\A s \in Slots, r \in Records :
         (Returned(s) /\ r = calls[s].rec
            /\ last'.out \in {"webhook_error", "network_error"}) =>
            LET fp == generateCookieFingerprint(r)
            IN  /\ sentCookies' = sentCookies
                /\ storageQ' = storageQ
                /\ store' = store
                /\ SetHas(sentCookies', fp) = SetHas(sentCookies, fp)
                /\ (~SetHas(sentCookies, fp) =>
                       StartOutcome(webhookUrl', SetHas(sentCookies', fp)).out = "sending")]_vars

\* A call has ended in a failure and nothing is in the cache or on its way
\* to the store.
C3_Witness ==
    /\ last.out \in {"webhook_error", "network_error"}
    /\ sentCookies = <<>>
    /\ storageQ = <<>>
    /\ \A f \in Fingerprints : okCount[f] = 0

\* C4: with no webhook URL every logCookieData call returns not_configured,
\* issues no fetch, does not evaluate isDuplicateCookie and leaves
\* sentCookies and the store alone, also for a record that is in sentCookies.
C4_NotConfigured ==
    [][(webhookUrl = "" /\ nCalls' = nCalls + 1) =>
          /\ last'.out = "not_configured"
          /\ ~last'.queried
          /\ calls' = calls
          /\ sentCookies' = sentCookies
          /\ storageQ' = storageQ
          /\ store' = store]_vars

\* An instance without URL answered not_configured for a record whose
\* fingerprint was in sentCookies.
C4_Witness ==
    webhookUrl = "" /\ last.out = "not_configured" /\ last.seen

\* C5: once clearSentCookies has returned, and until the next commit, the
\* count is 0 and no record is a duplicate, at whatever stage of the
\* lifecycle the clear was called.
C5_ClearResets ==
    clearedQuiet = "yes" =>
        getSentCookiesCount = 0 /\ \A r \in Records : ~isDuplicateCookie(r)

\* C6: when the records committed on an instance have all been saved without
\* failure (and nothing was cleared), a fresh instance on the same store
\* finds every one of them a duplicate once its hydration has completed.
C6_RoundTrip ==
    (roundTrip /\ undisturbed /\ loadPc = "done") =>
        prevCommitted \subseteq Range(sentCookies)

\* C7 (its last part): when the save triggered by the commit of a delivered
\* record failed, a later logCookieData call for that record on the same
\* instance, with no clear in between, does not reach the webhook.
C7_LaterSubmitIsDuplicate ==
    \A s \in Slots :
        (calls[s].pc = "sending" /\ calls[s].sentBefore) =>
            generateCookieFingerprint(calls[s].rec) \notin persistLost

\* C8: no storage failure surfaces: clearSentCookies (like the constructor
\* and logCookieData, which have no rejecting position) never rejects.
C8_NothingSurfaces ==
    clearPc # "rejected"

\* C9: every logCookieData call that has ended returned one of the five
\* outcomes and raised nothing, and it returned delivered exactly when its
\* fetch resolved with response.ok.
C9_SubmitTotal ==
    /\ last.out \in {"none", "not_configured", "duplicate", "delivered",
                     "webhook_error", "network_error"}
    /\ last.out = "delivered" <=> last.resp = "ok"
    /\ last.resp # "none" => last.out \in {"delivered", "webhook_error", "network_error"}

\* Calls have ended with a delivery and, later, with a failure of the fetch.
C9_Witness ==
    /\ last.out = "network_error"
    /\ last.resp = "fault"
    /\ \E f \in Fingerprints : okCount[f] = 1

\* C10: a commit puts the fingerprint in sentCookies exactly once and writes
\* exactly sentCookies to the store; a commit of a fingerprint that is
\* already there leaves sentCookies as it was, and the array it writes holds
\* the fingerprint once.
C10_IdempotentCommit ==
    [][\A f \in Fingerprints :
         okCount'[f] = okCount[f] + 1 =>
            LET written == storageQ'[Len(storageQ')]
            IN  /\ Len(storageQ') = Len(storageQ) + 1
                /\ written.op = "set"
                /\ written.val = sentCookies'
                /\ Count(written.val, f) = 1
                /\ Count(sentCookies', f) = 1
                /\ (SetHas(sentCookies, f) => sentCookies' = sentCookies)]_vars

\* The same fingerprint was committed twice in a row on a cache that nothing
\* else has touched, and it is held once.
C10_Witness ==
    /\ loadPc = "reading"
    /\ nClears = 0
    /\ instance = 0
    /\ \E f \in Fingerprints : okCount[f] = 2 /\ Count(sentCookies, f) = 1

\* This step ran markCookieAsSent: a set request was added to the queue.
Committing ==
    /\ Len(storageQ') = Len(storageQ) + 1
    /\ storageQ'[Len(storageQ')].op = "set"

\* C11: a logCookieData call inserts its fingerprint only in the step in
\* which its fetch resolves with response.ok: not when the call starts and
\* sends, and not on any other response; and every call whose fetch resolves
\* with response.ok has inserted the fingerprint when it returns delivered.
C11_CommitOrdering ==
    [][/\ (nCalls' = nCalls + 1 => sentCookies' = sentCookies /\ ~Committing)
       /\ (Committing =>
              \E s \in Slots :
                 LET fp == generateCookieFingerprint(calls[s].rec)
                 IN  /\ Returned(s)
                     /\ last'.resp = "ok"
                     /\ okCount'[fp] = okCount[fp] + 1
                     /\ storageQ'[Len(storageQ')].by = fp)
       /\ (\A f \in Fingerprints :
              okCount'[f] = okCount[f] + 1 =>
                 /\ Committing
                 /\ SetHas(sentCookies', f)
                 /\ last'.out = "delivered")]_vars

\* A call has returned delivered, its fingerprint is in sentCookies and its
\* save is on the way.
C11_Witness ==
    /\ last.out = "delivered"
    /\ last.resp = "ok"
    /\ WritesInFlight
    /\ \E f \in Fingerprints : okCount[f] = 1 /\ SetHas(sentCookies, f)

\* C12: a fingerprint committed on this instance stays in sentCookies until
\* clearSentCookies is called, also when the hydration completes after the
\* commit with a stored array that does not hold it.
C12_CommittedStays ==
    \A f \in sinceSent : SetHas(sentCookies, f)

\* C13: two logCookieData calls for one record can overlap, the later one
\* starting while the earlier one awaits its fetch; both pass the duplicate
\* check and reach the webhook, both return delivered, and once both have
\* committed sentCookies holds the fingerprint exactly once.  A call whose
\* fingerprint was not committed when it started and is committed when its
\* fetch resolves has overlapped with the call that committed it.
C13_OverlapCommitsOnce ==
    [][\A s \in Slots, r \in Records :
         (Returned(s) /\ r = calls[s].rec /\ last'.resp = "ok"
            /\ ~last'.sentBefore
            /\ generateCookieFingerprint(r) \in sinceSent) =>
            LET fp == generateCookieFingerprint(r)
            IN  /\ last'.out = "delivered"
                /\ okCount'[fp] = okCount[fp] + 1
                /\ okCount'[fp] >= 2
                /\ Count(sentCookies', fp) = 1]_vars

\* Two calls for one record, and nothing else, ran on the first instance;
\* the one that returned last had started before the other committed; both
\* were delivered and the fingerprint is held once.
C13_Witness ==
    /\ instance = 0
    /\ nClears = 0
    /\ nCalls = 2
    /\ last.out = "delivered"
    /\ ~last.sentBefore
    /\ calls = [s \in Slots |-> IdleCall]
    /\ \E f \in Fingerprints :
          okCount[f] = 2 /\ sinceSent = {f} /\ Count(sentCookies, f) = 1

\* The step in which loadSentCookies finishes after a read that gave no
\* array: the key is missing, the value is not iterable, or the get rejected.
HydrationFailed ==
    /\ loadPc = "resolved"
    /\ loadPc' = "done"
    /\ loadResult.kind \in {"absent", "malformed", "failed"}

C15_DuplicateNoEffects ==
    [][(webhookUrl # "" /\ nCalls' = nCalls + 1) =>
          /\ \A s \in Slots, r \in Records :
                (calls[s].pc = "idle" /\ calls'[s].pc = "sending" /\ r = calls'[s].rec) =>
                    ~SetHas(sentCookies, generateCookieFingerprint(r))
          /\ (calls' = calls =>
                /\ last'.out = "duplicate"
                /\ last'.seen
                /\ last'.resp = "none"
                /\ sentCookies' = sentCookies
                /\ storageQ' = storageQ
                /\ store' = store)
          /\ (calls' # calls => last' = last)]_vars

\* A call returned duplicate for a fingerprint held in sentCookies while
\* that fingerprint's save was still waiting to be served.
C15_Witness ==
    /\ webhookUrl = "hook"
    /\ last.out = "duplicate"
    /\ last.seen
    /\ last.sentBefore
    /\ WritesInFlight

\* The fingerprints that are in the store, on their way to it or back from
\* it, or in sentCookies.
Held ==
    Range(sentCookies) \cup Range(store.val) \cup Range(loadResult.val)
        \cup UNION {Range(storageQ[i].val) : i \in 1..Len(storageQ)}

\* C16: every fingerprint in sentCookies or in the store (or in a request or
\* reply between the two) was in the store when the first instance was
\* constructed or belongs to a record whose fetch resolved with response.ok.
C16_SeenSetSound ==
    \A f \in Held : f \in bootStore \/ (f \in Fingerprints /\ okCount[f] >= 1)

\* sentCookies holds a fingerprint that came from the store and was never
\* delivered, next to one that was delivered, after a delivery that failed.
C16_Witness ==
    /\ \E f \in Range(sentCookies) : f \in bootStore /\ okCount[f] = 0
    /\ \E f \in Range(sentCookies) : f \notin bootStore /\ okCount[f] = 1
    /\ \E f \in Fingerprints : okCount[f] = 0 /\ f \notin Held

\* C17: on the first instance, when a commit has happened, nothing was
\* cleared, no storage request failed, the hydration has finished and no
\* storage request is waiting, the store holds exactly the fingerprints of
\* sentCookies.
C17_StoreAgrees ==
    (instance = 0 /\ undisturbed /\ nClears = 0 /\ sinceSent # {}
        /\ loadPc = "done" /\ storageQ = <<>>) =>
        Range(store.val) = Range(sentCookies)

(* ---------------------------- the pure methods ------------------------ *)
\* Addition of two signed 32-bit integers with two's-complement wrap-around.
AddWrap32(a, b) ==
    IF a >= 0 /\ b >= 0 /\ b > (-(MinInt32 + 1)) - a THEN (a + MinInt32) + (b + MinInt32)
    ELSE IF a < 0 /\ b < 0 /\ b < MinInt32 - a THEN (a - MinInt32) + (b - MinInt32)
    ELSE a + b

\* 31 * a with wrap-around: a + 2a + 4a + 8a + 16a.
Times31Wrap32(a) ==
    LET a2 == AddWrap32(a, a)
        a4 == AddWrap32(a2, a2)
        a8 == AddWrap32(a4, a4)
        a16 == AddWrap32(a8, a8)
    IN  AddWrap32(AddWrap32(AddWrap32(AddWrap32(a, a2), a4), a8), a16)

\* The accumulator after folding acc = acc * 31 + x over the numbers of s
\* from the i-th on; each step's accumulator is bound as a value before the
\* next step is taken.
RECURSIVE FoldFrom(_, _, _)
FoldFrom(s, i, acc) ==
    IF i > Len(s) THEN acc
    ELSE CHOOSE r \in {FoldFrom(s, i + 1, next) :
                          next \in {AddWrap32(Times31Wrap32(acc), s[i])}} : TRUE

Fold31(s) == FoldFrom(s, 1, 0)

DigitValue(c) ==
    IF c \in 48..57 THEN c - 48 ELSE IF c \in 97..102 THEN c - 87 ELSE -1

RECURSIVE Base16Value(_)
Base16Value(d) ==
    IF Len(d) = 0 THEN 0
    ELSE Base16Value(SubSeq(d, 1, Len(d) - 1)) * 16 + DigitValue(d[Len(d)])

\* d is the base-16 rendering of the absolute value of the 32-bit integer acc:
\* digits 0-9 and a-f, no leading zero, and the value |acc|, which is at most
\* 2^31 and is 2^31, "80000000", only for acc = -2^31.
IsBase16OfAbs(d, acc) ==
    /\ Len(d) \in 1..8
    /\ \A i \in 1..Len(d) : DigitValue(d[i]) >= 0
    /\ (Len(d) > 1 => d[1] # 48)
    /\ IF acc = MinInt32
       THEN d = <<56, 48, 48, 48, 48, 48, 48, 48>>
       ELSE /\ (Len(d) = 8 => DigitValue(d[1]) < 8)
            /\ Base16Value(d) = Abs(acc)

HashDone == probe.kind = "hash" /\ probe.done

\* C18, as stated: hashString returns the base-16 rendering of the absolute
\* value of the accumulator that folds acc = acc * 31 + code point over the
\* characters of the string, wrapped to 32 bits at every step.
C18_HashFoldsCodePoints ==
    HashDone => IsBase16OfAbs(probe.digest, Fold31(probe.text))

\* C18, amended: hashString returns, for every string, the base-16 rendering
\* of the absolute value of the accumulator that folds acc = acc * 31 + unit
\* over the UTF-16 code units of the string, wrapped to 32 bits at every
\* step; the empty string gives "0" and the value rendered is in 0..2^31.
C18_HashFoldsCodeUnits ==
    HashDone =>
        /\ IsBase16OfAbs(probe.digest, Fold31(Utf16(probe.text)))
        /\ (probe.text = <<>> => probe.digest = <<48>>)
        /\ (probe.text = Polygenelubricants => probe.digest = <<56, 48, 48, 48, 48, 48, 48, 48>>)

\* A string with a character outside the basic plane was hashed and its
\* accumulator had wrapped to a negative value.
C18_Witness ==
    /\ HashDone
    /\ 128512 \in Range(probe.text)
    /\ Fold31(Utf16(probe.text)) < 0
    /\ Len(probe.digest) = 8

PairDone == probe.kind = "pair" /\ probe.done

Missing(v) == v = undefined \/ v = <<>>

\* The fingerprint the record is to get: name or "unknown", "_", id or
\* "unknown", "_", hash of the secret or of the empty string.
Expected(r) ==
    (IF Missing(r.username) THEN unknown ELSE r.username) \o <<95>> \o
    (IF Missing(r.userId) THEN unknown ELSE r.userId) \o <<95>> \o
    (IF Missing(r.cookie) THEN hashString(<<>>) ELSE hashString(r.cookie))

\* C19: generateCookieFingerprint returns, for every record with string or
\* missing fields, the username or "unknown", "_", the userId or "unknown",
\* "_" and the hash of the cookie or of the empty string; it touches neither
\* the record nor sentCookies nor the store; and two records with the same
\* username, userId and cookie get the same fingerprint whatever else they
\* hold.
C19_FingerprintPureTotal ==
    PairDone =>
        /\ probe.fpa = Expected(probe.a)
        /\ probe.fpb = Expected(probe.b)
        /\ probe.fpa = generateCookieFingerprint(probe.a)
        /\ ((probe.a.username = probe.b.username /\ probe.a.userId = probe.b.userId
               /\ probe.a.cookie = probe.b.cookie) => probe.fpa = probe.fpb)
        /\ sentCookies = <<>>
        /\ storageQ = <<GetReq>>
        /\ store = Absent

\* Two records that agree on username, userId and cookie and differ in
\* another field were fingerprinted, one of the identity fields being empty.
C19_Witness ==
    /\ PairDone
    /\ probe.a.username = <<>>
    /\ probe.a.userId = <<98, 95, 99>>
    /\ probe.a.cookie = probe.b.cookie
    /\ probe.a.username = probe.b.username
    /\ probe.a.userId = probe.b.userId
    /\ probe.a.robux # probe.b.robux
    /\ probe.fpa = probe.fpb

\* C20: two records whose (username, userId) pairs differ get different
\* fingerprints, also when an identifier contains "_".  Stated here for
\* records whose username and userId are all present and not empty, which
\* are among the records the claim is about.
C20_IdentitiesKeptApart ==
    (PairDone
        /\ ~Missing(probe.a.username) /\ ~Missing(probe.a.userId)
        /\ ~Missing(probe.b.username) /\ ~Missing(probe.b.userId)
        /\ <<probe.a.username, probe.a.userId>> # <<probe.b.username, probe.b.userId>>) =>
        probe.fpa # probe.fpb

====
